---- MODULE Spec2Model ----
(***************************************************************************)
(* Rep-detection state machine of the squat dashboard                      *)
(* (src/python/squat_dashboard.py, class SquatDashboard), and the          *)
(* click-calibration state machine of its OpenCV variant                   *)
(* (src/python/squat_dashboard_opencv.py, class SquatDashboard).           *)
(*                                                                         *)
(* Angles are modelled in whole degrees.  A pose is described by the polar *)
(* angles (degrees, in (-180, 180], as atan2 returns them) of the three    *)
(* body segments calculate_angle and get_depth_status read.                *)
(***************************************************************************)
EXTENDS Integers, Sequences, FiniteSets, TLC

VARIABLES
    rep_count,            \* self.rep_count
    in_squat,             \* self.in_squat
    current_rep_metrics,  \* self.current_rep_metrics
    deepest_knee_angle,   \* self.deepest_knee_angle
    deepest_torso_angle,  \* self.deepest_torso_angle
    last_rep_feedback,    \* self.last_rep_feedback
    feedback_timer,       \* self.feedback_timer
    \* history variables: they record the inputs, never steer the program
    frame_kind,           \* kind of the last frame fed
    below,                \* the last frame with knee_angle > 0 was below 140
    cycles,               \* completed below -> at-or-above cycles in the input
    never_below,          \* no frame so far had 0 < knee_angle < 140
    rep_min,              \* least knee angle of the frames of the current cycle
    rep_min_torso,        \* torso angle of the first frame attaining rep_min
    missing_in_rep,       \* a frame without knee angle arrived during the cycle
    script_pos,           \* progress through the scripted sequence, -1 = left it
    opens,                \* STANDING -> IN_SQUAT transitions fired so far
    calls_since_rep,      \* process_frame calls since the input's last completed
                          \* cycle, saturating; saturated while there was none
    \* what process_frame returns, observed in SpecOutput
    frame_pose,           \* the pose of the last frame
    depth_status,         \* the depth_status returned for it
    \* a pure function under test: its arguments and its results
    arg,
    res,
    \* the OpenCV variant (squat_dashboard_opencv.py)
    tracking_points,      \* self.tracking_points, <<>> standing for None
    setup_complete,       \* self.setup_complete
    current_point,        \* self.current_point
    point_index,          \* self.point_index
    cv_open,              \* the run loop has not been left with 'q'
    cv_event,             \* history: the kind of the last event handled
    cv_out                \* what its process_frame returned last, <<>> = no call

prog_vars == <<rep_count, in_squat, current_rep_metrics, deepest_knee_angle,
               deepest_torso_angle, last_rep_feedback, feedback_timer>>
hist_vars == <<frame_kind, below, cycles, never_below, rep_min, rep_min_torso,
               missing_in_rep, script_pos, opens, calls_since_rep>>
out_vars == <<frame_pose, depth_status>>
fn_vars == <<arg, res>>
cv_prog_vars == <<tracking_points, setup_complete, current_point, point_index>>
cv_vars == <<cv_prog_vars, cv_open, cv_event, cv_out>>
vars == <<prog_vars, hist_vars, out_vars, fn_vars, cv_vars>>

----------------------------------------------------------------------------
(* Bounds of the model *)

MaxReps == 2
MaxSamples == 3

\* knee and torso angles fed to update_rep_count directly
KneeAngles == {0, 100, 120, 140, 180}
TorsoAngles == {0, 35, 50}

\* knee and torso angles around the threshold and the shallow bands
NearKneeAngles == {0, 120, 136, 139, 140, 175}
NearTorsoAngles == {35}

\* polar angles of the segments of a detected pose (image y grows downwards)
ThighDirs == {-90, -10, 90}   \* knee -> hip
ShankDirs == {90}             \* knee -> ankle
TrunkDirs == {-155, 170}      \* hip -> shoulder

\* the poses fed where the returned depth_status is observed
OutThighDirs == {-90, 10, 180}
OutTrunkDirs == {-155}

NoPose == [detected |-> FALSE]
OutPoses == [detected : {TRUE}, thigh : OutThighDirs, shank : ShankDirs,
             trunk : OutTrunkDirs]
Poses == [detected : {TRUE}, thigh : ThighDirs, shank : ShankDirs, trunk : TrunkDirs]

----------------------------------------------------------------------------
(* Program constants *)

squat_threshold == 140
feedback_duration == 180
NoKneeYet == 180     \* initial self.deepest_knee_angle

----------------------------------------------------------------------------
(* calculate_angle: difference of the polar angles of b->a and b->c,        *)
(* absolute value, reflected above 180                                      *)

Abs(x) == IF x < 0 THEN -x ELSE x

\* mutant: angles above 180 are not reflected
calculate_angle_noreflect(dir_a, dir_c) == Abs(dir_c - dir_a)

calculate_angle(dir_a, dir_c) ==
    LET angle == Abs(dir_c - dir_a)
    IN  IF angle > 180 THEN 360 - angle ELSE angle

\* polar angle of the reversed segment
Opposite(dir) == IF dir > 0 THEN dir - 180 ELSE dir + 180

\* knee_angle = calculate_angle(hip, knee, ankle)
PoseKneeAngle(pose) == calculate_angle(pose.thigh, pose.shank)
\* torso_angle = calculate_angle(shoulder, hip, knee)
PoseTorsoAngle(pose) == calculate_angle(pose.trunk, Opposite(pose.thigh))

----------------------------------------------------------------------------
(* get_depth_status: hip.y > knee.y.  hip.y - knee.y is the length of the  *)
(* thigh times the sine of the polar angle of knee -> hip.                  *)

\* sign of the sine of a polar angle of (-180, 180]
SinSign(dir) == IF dir > 0 /\ dir < 180 THEN 1 ELSE IF dir < 0 THEN -1 ELSE 0

\* mutant: the comparison is not strict
get_depth_status_ge(pose) ==
    IF SinSign(pose.thigh) >= 0 THEN "Below Parallel" ELSE "Above Parallel"

get_depth_status(pose) ==
    IF SinSign(pose.thigh) > 0 THEN "Below Parallel" ELSE "Above Parallel"

----------------------------------------------------------------------------
(* The classifiers: each returns a label and a display colour *)

\* mutant: the "No data" test is missing
get_knee_feedback_nozero(knee_angle) ==
    IF knee_angle >= 170 THEN <<"Standing position", <<255, 255, 255>>>>
    ELSE IF 135 < knee_angle /\ knee_angle < 170 THEN <<"Shallow squat", <<0, 165, 255>>>>
    ELSE IF 110 <= knee_angle /\ knee_angle <= 135 THEN <<"Perfect depth!", <<0, 255, 0>>>>
    ELSE IF 90 <= knee_angle /\ knee_angle < 110 THEN <<"Good depth", <<0, 200, 0>>>>
    ELSE IF 70 <= knee_angle /\ knee_angle < 90 THEN <<"Parallel squat", <<255, 255, 0>>>>
    ELSE <<"Very deep squat", <<255, 0, 255>>>>

get_knee_feedback(knee_angle) ==
    IF knee_angle = 0 THEN <<"No data", <<128, 128, 128>>>>
    ELSE IF knee_angle >= 170 THEN <<"Standing position", <<255, 255, 255>>>>
    ELSE IF 135 < knee_angle /\ knee_angle < 170 THEN <<"Shallow squat", <<0, 165, 255>>>>
    ELSE IF 110 <= knee_angle /\ knee_angle <= 135 THEN <<"Perfect depth!", <<0, 255, 0>>>>
    ELSE IF 90 <= knee_angle /\ knee_angle < 110 THEN <<"Good depth", <<0, 200, 0>>>>
    ELSE IF 70 <= knee_angle /\ knee_angle < 90 THEN <<"Parallel squat", <<255, 255, 0>>>>
    ELSE <<"Very deep squat", <<255, 0, 255>>>>

get_torso_feedback(torso_angle) ==
    IF torso_angle = 0 THEN <<"No data", <<128, 128, 128>>>>
    ELSE IF 30 <= torso_angle /\ torso_angle <= 45 THEN <<"Good torso angle", <<0, 255, 0>>>>
    ELSE IF 20 <= torso_angle /\ torso_angle < 30 THEN <<"Too upright", <<255, 165, 0>>>>
    ELSE IF 45 < torso_angle /\ torso_angle <= 60 THEN <<"Slight forward lean", <<255, 255, 0>>>>
    ELSE IF torso_angle > 60 THEN <<"Too much forward lean", <<0, 0, 255>>>>
    ELSE <<"Very upright", <<255, 165, 0>>>>

get_depth_feedback(knee_angle) ==
    IF knee_angle = 0 THEN <<"No data", <<128, 128, 128>>>>
    ELSE IF knee_angle > 135 THEN <<"Partial/Shallow", <<255, 165, 0>>>>
    ELSE IF 90 <= knee_angle /\ knee_angle <= 135 THEN <<"Parallel to Deep", <<0, 255, 0>>>>
    ELSE <<"Very Deep", <<0, 255, 255>>>>

----------------------------------------------------------------------------
(* generate_rep_feedback *)

\* mutant: the first band starts above 170
KneeClause_strict(knee) ==
    IF knee > 170 THEN "Too shallow - go deeper"
    ELSE IF 135 < knee /\ knee <= 170 THEN "Shallow squat - try for more depth"
    ELSE IF 110 <= knee /\ knee <= 135 THEN "Perfect depth!"
    ELSE IF 90 <= knee /\ knee < 110 THEN "Good depth"
    ELSE IF 70 <= knee /\ knee < 90 THEN "Parallel depth achieved"
    ELSE "Very deep - be careful"

KneeClause(knee) ==
    IF knee >= 170 THEN "Too shallow - go deeper"
    ELSE IF 135 < knee /\ knee < 170 THEN "Shallow squat - try for more depth"
    ELSE IF 110 <= knee /\ knee <= 135 THEN "Perfect depth!"
    ELSE IF 90 <= knee /\ knee < 110 THEN "Good depth"
    ELSE IF 70 <= knee /\ knee < 90 THEN "Parallel depth achieved"
    ELSE "Very deep - be careful"

TorsoClause(torso) ==
    IF 30 <= torso /\ torso <= 45 THEN "Good torso position"
    ELSE IF torso < 30 THEN "Torso too upright"
    ELSE IF 45 < torso /\ torso <= 60 THEN "Slight forward lean"
    ELSE "Too much forward lean"

generate_rep_feedback(knee, torso) ==
    KneeClause(knee) \o " | " \o TorsoClause(torso)

----------------------------------------------------------------------------
(* update_rep_count, on the record of the instance's fields *)

Self == [rep_count |-> rep_count, in_squat |-> in_squat,
         current_rep_metrics |-> current_rep_metrics,
         deepest_knee_angle |-> deepest_knee_angle,
         deepest_torso_angle |-> deepest_torso_angle,
         last_rep_feedback |-> last_rep_feedback,
         feedback_timer |-> feedback_timer]

\* mutant: the sentinel 0 passes the validity test
ValidMeasurement_zero(knee_angle, torso_angle) == knee_angle >= 0

\* line 143: if knee_angle > 0
ValidMeasurement(knee_angle, torso_angle) == knee_angle > 0

\* mutant: a frame at exactly the threshold opens a rep
EntersSquat_inclusive(s, knee_angle) == knee_angle <= squat_threshold /\ ~s.in_squat

\* line 144: knee_angle < self.squat_threshold and not self.in_squat
EntersSquat(s, knee_angle) == knee_angle < squat_threshold /\ ~s.in_squat

\* mutant: the comparison is reversed
IsDeeper_shallower(s, knee_angle) == knee_angle > s.deepest_knee_angle

\* mutant: a frame that only equals the deepest knee angle replaces it
IsDeeper_le(s, knee_angle) == knee_angle <= s.deepest_knee_angle

\* line 152: knee_angle < self.deepest_knee_angle
IsDeeper(s, knee_angle) == knee_angle < s.deepest_knee_angle

\* mutant: a frame at exactly the threshold does not close the rep
ExitsSquat_strict(knee_angle) == knee_angle > squat_threshold

\* line 162: knee_angle >= self.squat_threshold
ExitsSquat(knee_angle) == knee_angle >= squat_threshold

\* mutant: the deepest angles of the previous rep are kept at the opening frame
StartRep_stale(s, knee_angle, torso_angle) ==
    [s EXCEPT !.in_squat = TRUE, !.current_rep_metrics = <<>>]

\* mutant: the samples of the previous rep are not discarded
StartRep_keepbuffer(s, knee_angle, torso_angle) ==
    [s EXCEPT !.in_squat = TRUE,
              !.deepest_knee_angle = knee_angle,
              !.deepest_torso_angle = torso_angle]

\* lines 146-149
StartRep(s, knee_angle, torso_angle) ==
    [s EXCEPT !.in_squat = TRUE,
              !.deepest_knee_angle = knee_angle,
              !.deepest_torso_angle = torso_angle,
              !.current_rep_metrics = <<>>]

\* mutant: every frame of the rep replaces the deepest angles
TrackRep_last(s, knee_angle, torso_angle) ==
    [s EXCEPT !.deepest_knee_angle = knee_angle,
              !.deepest_torso_angle = torso_angle,
              !.current_rep_metrics =
                  Append(@, [knee_angle |-> knee_angle, torso_angle |-> torso_angle])]

\* lines 152-160
TrackRep(s, knee_angle, torso_angle) ==
    LET d == IF IsDeeper(s, knee_angle)
             THEN [s EXCEPT !.deepest_knee_angle = knee_angle,
                            !.deepest_torso_angle = torso_angle]
             ELSE s
    IN  [d EXCEPT !.current_rep_metrics =
            Append(@, [knee_angle |-> knee_angle, torso_angle |-> torso_angle])]

\* mutant: the counter steps the wrong way
CountRep_down(n) == n - 1

\* line 165
CountRep(n) == n + 1

\* mutant: the timer is armed one tick short
ArmTimer_short == feedback_duration - 1

\* mutant: the timer is armed two ticks long
ArmTimer_long == feedback_duration + 2

\* line 167
ArmTimer == feedback_duration

\* mutant: the feedback of the rep is not generated
FinishRep_nofeedback(s) ==
    [s EXCEPT !.in_squat = FALSE,
              !.rep_count = CountRep(@),
              !.feedback_timer = ArmTimer]

\* mutant: in_squat is not cleared when the rep is counted
FinishRep_keepsquat(s) ==
    [s EXCEPT !.rep_count = CountRep(@),
              !.last_rep_feedback =
                  generate_rep_feedback(s.deepest_knee_angle, s.deepest_torso_angle),
              !.feedback_timer = ArmTimer]

\* lines 164-167
FinishRep(s) ==
    [s EXCEPT !.in_squat = FALSE,
              !.rep_count = CountRep(@),
              !.last_rep_feedback =
                  generate_rep_feedback(s.deepest_knee_angle, s.deepest_torso_angle),
              !.feedback_timer = ArmTimer]

update_rep_count(s, knee_angle, torso_angle) ==
    IF ValidMeasurement(knee_angle, torso_angle)
    THEN IF EntersSquat(s, knee_angle)
         THEN StartRep(s, knee_angle, torso_angle)
         ELSE IF s.in_squat
              THEN LET t == TrackRep(s, knee_angle, torso_angle)
                   IN  IF ExitsSquat(knee_angle) THEN FinishRep(t) ELSE t
              ELSE s
    ELSE s

\* mutant: the decrement is not guarded
TickTimer_unclamped(timer) == timer - 1

\* draw_metrics, lines 174-175: the only field it writes is the timer
TickTimer(timer) == IF timer > 0 THEN timer - 1 ELSE timer

draw_metrics(s) == [s EXCEPT !.feedback_timer = TickTimer(@)]

\* process_frame, lines 223-251
process_frame(s, pose) ==
    IF pose.detected
    THEN draw_metrics(update_rep_count(s, PoseKneeAngle(pose), PoseTorsoAngle(pose)))
    ELSE draw_metrics(s)

\* the depth_status process_frame returns, lines 225-241
FrameDepthStatus(pose) ==
    IF pose.detected THEN get_depth_status(pose) ELSE "Unknown"

\* the angles process_frame returns
FrameKnee(pose) == IF pose.detected THEN PoseKneeAngle(pose) ELSE 0
FrameTorso(pose) == IF pose.detected THEN PoseTorsoAngle(pose) ELSE 0

----------------------------------------------------------------------------
(* History of the inputs, defined on the frames alone *)

\* the scripted frames (knee_angle, torso_angle): stand, squat to 100, stand
Script == <<<<180, 35>>, <<100, 35>>, <<100, 35>>, <<100, 35>>, <<180, 35>>>>

Min2(a, b) == IF a < b THEN a ELSE b
Max2(a, b) == IF a > b THEN a ELSE b

\* calls_since_rep counts up to here
Saturated == feedback_duration + 1

KindOf(knee, torso) ==
    IF knee = 0 THEN "no_knee"
    ELSE IF torso = 0 THEN "no_torso"
    ELSE "valid"

Observe(kind, knee, torso) ==
    /\ frame_kind' = kind
    /\ below' = IF knee > 0 THEN knee < 140 ELSE below
    /\ cycles' = IF knee >= 140 /\ below THEN cycles + 1 ELSE cycles
    /\ never_below' = (never_below /\ ~(knee > 0 /\ knee < 140))
    /\ rep_min' = IF knee > 0 /\ knee < 140 /\ ~below THEN knee
                  ELSE IF knee > 0 /\ below THEN Min2(rep_min, knee)
                  ELSE rep_min
    /\ rep_min_torso' = IF knee > 0 /\ knee < 140 /\ ~below THEN torso
                        ELSE IF knee > 0 /\ below /\ knee < rep_min THEN torso
                        ELSE rep_min_torso
    /\ missing_in_rep' = IF knee > 0 /\ knee < 140 /\ ~below THEN FALSE
                         ELSE IF knee = 0 /\ below THEN TRUE
                         ELSE missing_in_rep
    /\ script_pos' = IF /\ script_pos >= 0
                        /\ script_pos < Len(Script)
                        /\ <<knee, torso>> = Script[script_pos + 1]
                     THEN script_pos + 1
                     ELSE -1

----------------------------------------------------------------------------
(* The OpenCV variant: points set by mouse clicks (squat_dashboard_opencv.py) *)

\* self.point_order
point_order == <<"shoulder", "hip", "knee", "ankle">>

\* a point that has not been set (None)
None == <<>>

\* the pixels a click can land on: the corners of a square, so that the ray
\* between any two of them lies on one of the eight compass directions
ClickXs == {100, 200}
ClickYs == {100, 200}
ClickPoints == {<<x, y>> : x \in ClickXs, y \in ClickYs}

\* the mouse events delivered to the callback
MouseEvents == {"EVENT_LBUTTONDOWN", "EVENT_MOUSEMOVE"}

\* the keys cv2.waitKey can report
Keys == {"r", "q", "other"}

\* np.arctan2(y, x) in degrees, for a vector on a compass direction or the
\* zero vector (for which it returns 0)
arctan2(y, x) ==
    CASE y = 0 /\ x >= 0               -> 0
      [] y = 0 /\ x < 0                -> 180
      [] x = 0 /\ y > 0                -> 90
      [] x = 0 /\ y < 0                -> -90
      [] x > 0 /\ y > 0 /\ x = y       -> 45
      [] x < 0 /\ y > 0 /\ -x = y      -> 135
      [] x < 0 /\ y < 0 /\ x = y       -> -135
      [] x > 0 /\ y < 0 /\ x = -y      -> -45

\* calculate_angle(point1, point2, point3): the angle at point2; a point is
\* <<x, y>>, so point[1] of the source is point[2] here
cv_calculate_angle(point1, point2, point3) ==
    LET degrees == arctan2(point3[2] - point2[2], point3[1] - point2[1])
                   - arctan2(point1[2] - point2[2], point1[1] - point2[1])
        angle == Abs(degrees)
    IN  IF angle > 180 THEN 360 - angle ELSE angle

cv_get_depth_status(hip, knee) ==
    IF hip[2] > knee[2] THEN "Below Parallel" ELSE "Above Parallel"

\* the fields of the instance
Cv == [tracking_points |-> tracking_points,
       setup_complete  |-> setup_complete,
       current_point   |-> current_point,
       point_index     |-> point_index]

\* the instance after __init__
cv_init == [tracking_points |-> [name \in {"shoulder", "hip", "knee", "ankle"}
                                 |-> None],
            setup_complete  |-> FALSE,
            current_point   |-> "shoulder",
            point_index     |-> 0]

\* mouse_callback(event, x, y, flags, param); point_order is indexed from 0
\* in the source and from 1 here
mouse_callback(s, event, x, y) ==
    IF event = "EVENT_LBUTTONDOWN" /\ ~s.setup_complete
    THEN LET current == point_order[s.point_index + 1]
             placed == [s EXCEPT !.tracking_points[current] = <<x, y>>,
                                 !.point_index = s.point_index + 1]
         IN  IF placed.point_index >= Len(point_order)
             THEN [placed EXCEPT !.setup_complete = TRUE]
             ELSE [placed EXCEPT !.current_point =
                                     point_order[placed.point_index + 1]]
    ELSE s

\* a reset that leaves point_index where it was
reset_points_keepindex(s) ==
    [s EXCEPT !.tracking_points = [k \in DOMAIN s.tracking_points |-> None],
              !.setup_complete = FALSE,
              !.current_point = "shoulder"]

\* the branch of the run loop taken on the key 'r'
reset_points(s) ==
    [tracking_points |-> [k \in DOMAIN s.tracking_points |-> None],
     setup_complete  |-> FALSE,
     current_point   |-> "shoulder",
     point_index     |-> 0]

\* process_frame(image): <<knee_angle, torso_angle, depth_status>>
cv_process_frame(s) ==
    IF s.setup_complete
       /\ \A k \in DOMAIN s.tracking_points : s.tracking_points[k] # None
    THEN <<cv_calculate_angle(s.tracking_points["hip"],
                              s.tracking_points["knee"],
                              s.tracking_points["ankle"]),
           cv_calculate_angle(s.tracking_points["shoulder"],
                              s.tracking_points["hip"],
                              s.tracking_points["knee"]),
           cv_get_depth_status(s.tracking_points["hip"],
                               s.tracking_points["knee"])>>
    ELSE <<0, 0, "Unknown">>

\* the run loop entered on a fresh instance, nothing handled yet
CvInit ==
    /\ tracking_points = cv_init.tracking_points
    /\ setup_complete = cv_init.setup_complete
    /\ current_point = cv_init.current_point
    /\ point_index = cv_init.point_index
    /\ cv_open = TRUE
    /\ cv_event = "none"
    /\ cv_out = <<>>

CvAssign(s) ==
    /\ tracking_points' = s.tracking_points
    /\ setup_complete' = s.setup_complete
    /\ current_point' = s.current_point
    /\ point_index' = s.point_index

----------------------------------------------------------------------------
(* The state machine *)

\* the instance after __init__, no frame fed yet
InitFields ==
    /\ rep_count = 0
    /\ in_squat = FALSE
    /\ current_rep_metrics = <<>>
    /\ deepest_knee_angle = NoKneeYet
    /\ deepest_torso_angle = 0
    /\ last_rep_feedback = ""
    /\ feedback_timer = 0
    /\ frame_kind = "none"
    /\ below = FALSE
    /\ cycles = 0
    /\ never_below = TRUE
    /\ rep_min = NoKneeYet
    /\ rep_min_torso = 0
    /\ missing_in_rep = FALSE
    /\ script_pos = 0
    /\ opens = 0
    /\ calls_since_rep = Saturated
    /\ frame_pose = NoPose
    /\ depth_status = "none"
    /\ CvInit

Init ==
    /\ InitFields
    /\ arg = <<>>
    /\ res = <<>>

\* the fields after a call; a call that would pass a bound of the model is
\* not taken
Assign(s) ==
    /\ s.rep_count <= MaxReps
    /\ Len(s.current_rep_metrics) <= MaxSamples
    /\ rep_count' = s.rep_count
    /\ in_squat' = s.in_squat
    /\ current_rep_metrics' = s.current_rep_metrics
    /\ deepest_knee_angle' = s.deepest_knee_angle
    /\ deepest_torso_angle' = s.deepest_torso_angle
    /\ last_rep_feedback' = s.last_rep_feedback
    /\ feedback_timer' = s.feedback_timer

\* counts the steps in which the program's in_squat goes from false to true
ObserveOpen ==
    opens' = IF ~in_squat /\ in_squat' THEN opens + 1 ELSE opens

\* a direct call update_rep_count(knee_angle, torso_angle)
UpdateRepCount(knee_angle, torso_angle) ==
    /\ Assign(update_rep_count(Self, knee_angle, torso_angle))
    /\ Observe(KindOf(knee_angle, torso_angle), knee_angle, torso_angle)
    /\ ObserveOpen
    /\ UNCHANGED <<calls_since_rep, out_vars, fn_vars, cv_vars>>

\* a call process_frame(image), the pose being what the detector finds in it
FrameStep(pose) ==
    /\ Assign(process_frame(Self, pose))
    /\ Observe(IF pose.detected THEN KindOf(FrameKnee(pose), FrameTorso(pose))
               ELSE "no_pose",
               FrameKnee(pose), FrameTorso(pose))
    /\ ObserveOpen
    /\ calls_since_rep' = IF FrameKnee(pose) >= 140 /\ below THEN 0
                          ELSE Min2(calls_since_rep + 1, Saturated)
    /\ UNCHANGED <<fn_vars, cv_vars>>

ProcessFrame(pose) ==
    /\ FrameStep(pose)
    /\ UNCHANGED out_vars

\* the same call, its returned depth_status observed
ProcessFrameOut(pose) ==
    /\ FrameStep(pose)
    /\ frame_pose' = pose
    /\ depth_status' = FrameDepthStatus(pose)

Next == \E k \in KneeAngles, t \in TorsoAngles : UpdateRepCount(k, t)

Spec == Init /\ [][Next]_vars

NextFrame == \E pose \in Poses \cup {NoPose} : ProcessFrame(pose)

SpecFrame == Init /\ [][NextFrame]_vars

NextNear == \E k \in NearKneeAngles, t \in NearTorsoAngles : UpdateRepCount(k, t)

SpecNear == Init /\ [][NextNear]_vars

NextOutput == \E pose \in OutPoses \cup {NoPose} : ProcessFrameOut(pose)

SpecOutput == Init /\ [][NextOutput]_vars

----------------------------------------------------------------------------
(* The classifiers applied to one angle of the test range *)

TestAngles == (-10) .. 200

InitClassify ==
    /\ InitFields
    /\ arg \in {<<a>> : a \in TestAngles}
    /\ res = <<>>

Classify ==
    /\ res = <<>>
    /\ res' = <<get_knee_feedback(arg[1]), get_torso_feedback(arg[1]),
                get_depth_feedback(arg[1])>>
    /\ UNCHANGED <<arg, prog_vars, hist_vars, out_vars, cv_vars>>

SpecClassify == InitClassify /\ [][Classify]_vars

----------------------------------------------------------------------------
(* The knee clause of generate_rep_feedback beside get_knee_feedback *)

CompareBands ==
    /\ res = <<>>
    /\ res' = <<KneeClause(arg[1]), get_knee_feedback(arg[1])[1]>>
    /\ UNCHANGED <<arg, prog_vars, hist_vars, out_vars, cv_vars>>

SpecBands == InitClassify /\ [][CompareBands]_vars

----------------------------------------------------------------------------
(* calculate_angle applied to the polar angles of the two rays *)

PolarAngles == (-179) .. 180

InitAngle ==
    /\ InitFields
    /\ arg \in {<<a, c>> : a \in PolarAngles, c \in PolarAngles}
    /\ res = <<>>

ApplyAngle ==
    /\ res = <<>>
    /\ res' = <<calculate_angle(arg[1], arg[2])>>
    /\ UNCHANGED <<arg, prog_vars, hist_vars, out_vars, cv_vars>>

SpecAngle == InitAngle /\ [][ApplyAngle]_vars

----------------------------------------------------------------------------
(* The run loop of the OpenCV variant: frames, mouse events and keys *)

\* a mouse event delivered to mouse_callback while the window is open
MouseCallback(event, x, y) ==
    /\ cv_open
    /\ CvAssign(mouse_callback(Cv, event, x, y))
    /\ cv_event' = IF event = "EVENT_LBUTTONDOWN" THEN "click" ELSE "mouse"
    /\ UNCHANGED <<cv_open, cv_out>>

\* the key cv2.waitKey reports: 'q' leaves the loop, 'r' resets the points
KeyPress(key) ==
    /\ cv_open
    /\ CvAssign(IF key = "r" THEN reset_points(Cv) ELSE Cv)
    /\ cv_open' = (key # "q")
    /\ cv_event' = IF key = "r" THEN "reset" ELSE "key"
    /\ UNCHANGED cv_out

\* process_frame on the frame read in an iteration of the loop
CvProcessFrame ==
    /\ cv_open
    /\ cv_out' = cv_process_frame(Cv)
    /\ cv_event' = "frame"
    /\ UNCHANGED <<cv_prog_vars, cv_open>>

NextCalib ==
    \/ \E event \in MouseEvents, p \in ClickPoints :
           MouseCallback(event, p[1], p[2])
    \/ \E key \in Keys : KeyPress(key)
    \/ CvProcessFrame

CvStep == NextCalib /\ UNCHANGED <<prog_vars, hist_vars, out_vars, fn_vars>>

SpecCalib == Init /\ [][CvStep]_vars

----------------------------------------------------------------------------
(* Properties *)

\* C1: N full squat-and-stand cycles of the knee angle (frames below 140
\* followed by a frame at or above 140, however the angle fluctuates on one
\* side) raise rep_count by exactly N: rep_count equals the number of cycles
\* the input has completed.
C1_RepsEqualCycles == rep_count = cycles

\* two cycles were fed, the second with several frames inside the squat
C1_Witness ==
    /\ cycles = 2
    /\ rep_count = 2
    /\ Len(current_rep_metrics) >= 2

\* C2: rep_count starts at 0, is never negative and never decreases across
\* a call, whatever the frame.
C2_RepCountMonotone ==
    /\ rep_count = 0
    /\ [](rep_count >= 0)
    /\ [][rep_count' >= rep_count]_vars

C2_Witness == rep_count = MaxReps /\ frame_kind = "no_knee"

\* C3: as long as no frame had a knee angle below 140 (frames with angle 0
\* are missing poses, not measurements), rep_count is 0 and in_squat is false.
C3_NoSquatNoRep == never_below => (rep_count = 0 /\ in_squat = FALSE)

\* frames at exactly the threshold and missing frames were fed, none below
C3_Witness ==
    /\ never_below
    /\ frame_kind = "valid"
    /\ script_pos = -1

\* C4 as stated: after knee angles [180, 100, 100, 100, 180] with torso 35
\* the feedback is "Perfect depth! | Good torso position".
C4_Original ==
    script_pos = Len(Script) =>
        /\ rep_count = 1
        /\ in_squat = FALSE
        /\ deepest_knee_angle = 100
        /\ last_rep_feedback = "Perfect depth! | Good torso position"

\* C4 as amended: the scripted sequence ends with one rep, standing, deepest
\* knee angle 100 and the feedback "Good depth | Good torso position"; and
\* after any completed cycle the feedback is the one generated from the least
\* knee angle of the cycle and the torso angle of the frame that attained it.
C4_ScriptedRep ==
    /\ script_pos = Len(Script) =>
        /\ rep_count = 1
        /\ in_squat = FALSE
        /\ deepest_knee_angle = 100
        /\ last_rep_feedback = "Good depth | Good torso position"
    /\ (cycles >= 1 /\ ~below) =>
        /\ in_squat = FALSE
        /\ last_rep_feedback = generate_rep_feedback(rep_min, rep_min_torso)

C4_Witness == script_pos = Len(Script)

\* C5: a frame without pose, or with knee angle 0, processed while a rep is
\* open leaves in_squat, the deepest angles, rep_count and the feedback as
\* they were.
C5_MissingPoseNoOp ==
    [][(in_squat /\ frame_kind' \in {"no_pose", "no_knee"}) =>
            /\ in_squat'
            /\ UNCHANGED <<deepest_knee_angle, deepest_torso_angle,
                           rep_count, last_rep_feedback>>]_vars

\* a rep during which a pose went missing was completed by a later frame
C5_Witness ==
    /\ missing_in_rep
    /\ in_squat = FALSE
    /\ rep_count >= 1
    /\ frame_kind \in {"valid", "no_torso"}

\* C6: while a rep is open, deepest_knee_angle is the least knee angle of the
\* frames fed since the rep opened, the opening frame included; the frame
\* that closes the rep is compared too and leaves that least angle in place.
C6_DeepestIsMin ==
    /\ in_squat => (below /\ deepest_knee_angle = rep_min)
    /\ (~in_squat /\ cycles >= 1) => deepest_knee_angle = rep_min

\* the least angle was reached after the opening frame and left again
C6_Witness ==
    /\ in_squat
    /\ Len(current_rep_metrics) = 2
    /\ current_rep_metrics[1].knee_angle = 100
    /\ current_rep_metrics[2].knee_angle = 120
    /\ deepest_knee_angle = 100

\* C7 as stated: a frame with torso angle 0 and a knee angle above 0 changes
\* neither in_squat nor the deepest angles nor rep_count.
C7_Original ==
    [][frame_kind' = "no_torso" =>
            UNCHANGED <<in_squat, deepest_knee_angle, deepest_torso_angle,
                        rep_count>>]_vars

\* C8 as stated: when a rep completes, neither deepest angle handed to
\* generate_rep_feedback is the sentinel 0.
C8_Original ==
    [][rep_count' = rep_count + 1 =>
            (deepest_knee_angle' # 0 /\ deepest_torso_angle' # 0)]_vars

\* C9 as stated: the state process_frame leaves for the frame that completed
\* a rep has feedback_timer = 180.
C9_Original ==
    [][rep_count' = rep_count + 1 => feedback_timer' = feedback_duration]_vars

\* C9 as amended: update_rep_count arms the timer to 180 and draw_metrics
\* ticks it once in the same call, so process_frame leaves 179 for the frame
\* that completed a rep.
C9_ArmedThenTicked ==
    [][rep_count' = rep_count + 1 => feedback_timer' = feedback_duration - 1]_vars

C9_Witness ==
    /\ rep_count >= 1
    /\ in_squat = FALSE
    /\ feedback_timer = feedback_duration - 1

\* C10 as stated: every call of process_frame that finds the timer positive
\* leaves it one lower.
C10_Original ==
    [][feedback_timer > 0 => feedback_timer' = feedback_timer - 1]_vars

\* C10 as amended: the timer stays within 0..180; a call of process_frame
\* that completes no rep leaves it one lower when it was positive and at 0
\* when it was 0, with or without a pose; a call that completes a rep leaves
\* it at 179.
C10_TimerTicks ==
    /\ [](0 <= feedback_timer /\ feedback_timer <= feedback_duration)
    /\ [][feedback_timer' =
            IF rep_count' # rep_count THEN feedback_duration - 1
            ELSE IF feedback_timer > 0 THEN feedback_timer - 1
            ELSE 0]_vars

\* the timer ran down to 1 and the last tick came from a frame without pose
C10_Witness ==
    /\ feedback_timer = 1
    /\ frame_kind = "no_pose"

\* the label sets and bands of the three classifiers, as tables
KneeLabels == {"No data", "Standing position", "Shallow squat", "Perfect depth!",
               "Good depth", "Parallel squat", "Very deep squat"}

InKneeBand(label, a) ==
    CASE label = "No data" -> a = 0
      [] label = "Standing position" -> a # 0 /\ a >= 170
      [] label = "Shallow squat" -> a # 0 /\ a > 135 /\ a < 170
      [] label = "Perfect depth!" -> a # 0 /\ a >= 110 /\ a <= 135
      [] label = "Good depth" -> a # 0 /\ a >= 90 /\ a < 110
      [] label = "Parallel squat" -> a # 0 /\ a >= 70 /\ a < 90
      [] label = "Very deep squat" -> a # 0 /\ a < 70

TorsoLabels == {"No data", "Good torso angle", "Too upright", "Slight forward lean",
                "Too much forward lean", "Very upright"}

InTorsoBand(label, a) ==
    CASE label = "No data" -> a = 0
      [] label = "Good torso angle" -> a >= 30 /\ a <= 45
      [] label = "Too upright" -> a >= 20 /\ a < 30
      [] label = "Slight forward lean" -> a > 45 /\ a <= 60
      [] label = "Too much forward lean" -> a > 60
      [] label = "Very upright" -> a # 0 /\ a < 20

DepthLabels == {"No data", "Partial/Shallow", "Parallel to Deep", "Very Deep"}

InDepthBand(label, a) ==
    CASE label = "No data" -> a = 0
      [] label = "Partial/Shallow" -> a # 0 /\ a > 135
      [] label = "Parallel to Deep" -> a >= 90 /\ a <= 135
      [] label = "Very Deep" -> a # 0 /\ a < 90

\* C11: for every angle of -10..200 each classifier returns one label of its
\* label set, the one label whose band holds the angle (0 is "No data").
C11_ClassifiersTotal ==
    res # <<>> =>
        /\ {l \in KneeLabels : InKneeBand(l, arg[1])} = {res[1][1]}
        /\ {l \in TorsoLabels : InTorsoBand(l, arg[1])} = {res[2][1]}
        /\ {l \in DepthLabels : InDepthBand(l, arg[1])} = {res[3][1]}

\* a negative angle, which only the final else branches take
C11_Witness ==
    /\ arg = <<-10>>
    /\ res # <<>>
    /\ res[1][1] = "Very deep squat"
    /\ res[2][1] = "Very upright"
    /\ res[3][1] = "Very Deep"

\* C12: the depth_status of a frame is "Unknown" exactly when no pose was
\* detected in it, otherwise "Below Parallel" when the hip lies lower on the
\* screen than the knee (knee -> hip points downwards) and "Above Parallel"
\* when it does not; it is a function of the frame's pose alone, whatever
\* rep_count, in_squat and the deepest angles are.
C12_DepthStatus ==
    depth_status # "none" =>
        /\ (depth_status = "Unknown") <=> ~frame_pose.detected
        /\ frame_pose.detected =>
              depth_status = IF frame_pose.thigh \in 1 .. 179
                             THEN "Below Parallel" ELSE "Above Parallel"

\* hip level with the knee during the second rep: not strictly lower
C12_Witness ==
    /\ depth_status = "Above Parallel"
    /\ frame_pose.detected
    /\ frame_pose.thigh = 180
    /\ in_squat
    /\ rep_count >= 1

\* C13: for every pair of polar angles of the rays b->a and b->c, each in
\* (-180, 180], calculate_angle returns a value of [0, 180].
C13_AngleRange ==
    res # <<>> => (res[1] >= 0 /\ res[1] <= 180)

\* a difference of 340 degrees, reflected to 20
C13_Witness ==
    /\ arg = <<-170, 170>>
    /\ res = <<20>>

\* C14: a frame with a knee angle at or above 140 (140 itself included)
\* arriving while in_squat is true raises rep_count by one, clears in_squat,
\* leaves both deepest angles as they were and sets last_rep_feedback to the
\* feedback generated from them; no other step changes last_rep_feedback.
C14_ClosingTransition ==
    /\ [][(in_squat /\ frame_kind' \in {"valid", "no_torso"} /\ ~below') =>
            /\ rep_count' = rep_count + 1
            /\ in_squat' = FALSE
            /\ UNCHANGED <<deepest_knee_angle, deepest_torso_angle>>
            /\ last_rep_feedback' =
                   generate_rep_feedback(deepest_knee_angle, deepest_torso_angle)]_vars
    /\ [][~(in_squat /\ ~in_squat') => UNCHANGED last_rep_feedback]_vars

\* a rep closed by a frame at exactly 140
C14_Witness ==
    /\ in_squat = FALSE
    /\ rep_count >= 1
    /\ frame_kind = "valid"
    /\ Len(current_rep_metrics) >= 1
    /\ current_rep_metrics[Len(current_rep_metrics)].knee_angle = 140

\* C15: while standing, a frame with a knee angle above 0 opens a rep exactly
\* when that angle is below 140.  Opening sets in_squat, sets the deepest
\* angles to the frame's angles (rep_min and rep_min_torso are those angles at
\* the first frame of a cycle), empties current_rep_metrics and leaves
\* rep_count and last_rep_feedback alone.  A frame at or above 140 leaves
\* rep_count, in_squat, the deepest angles and last_rep_feedback alone.
C15_OpeningTransition ==
    [][(~in_squat /\ frame_kind' \in {"valid", "no_torso"}) =>
           IF below'
           THEN /\ in_squat' = TRUE
                /\ deepest_knee_angle' = rep_min'
                /\ deepest_torso_angle' = rep_min_torso'
                /\ current_rep_metrics' = <<>>
                /\ UNCHANGED <<rep_count, last_rep_feedback>>
           ELSE UNCHANGED <<rep_count, in_squat, deepest_knee_angle,
                            deepest_torso_angle, last_rep_feedback>>]_vars

\* the second rep has just opened: the samples of the first are gone
C15_Witness ==
    /\ in_squat
    /\ rep_count = 1
    /\ current_rep_metrics = <<>>
    /\ deepest_knee_angle = 120
    /\ deepest_torso_angle = 50

\* C16: once a rep has opened, deepest_knee_angle and deepest_torso_angle are
\* the knee and the torso angle of one frame: the first frame of the cycle
\* that attained the least knee angle.  The torso angle is not minimised.
C16_DeepestPair ==
    ~never_below =>
        /\ deepest_knee_angle = rep_min
        /\ deepest_torso_angle = rep_min_torso

\* the least knee angle came twice, the second time with a smaller torso
\* angle: the deepest torso angle is still the first one
C16_Witness ==
    /\ in_squat
    /\ Len(current_rep_metrics) = 2
    /\ current_rep_metrics[1] = [knee_angle |-> 100, torso_angle |-> 50]
    /\ current_rep_metrics[2] = [knee_angle |-> 100, torso_angle |-> 35]
    /\ deepest_knee_angle = 100
    /\ deepest_torso_angle = 50

\* the six knee bands in the order both functions test them
KneeBandIndex(a) ==
    CASE a >= 170 -> 1
      [] a > 135 /\ a < 170 -> 2
      [] a >= 110 /\ a <= 135 -> 3
      [] a >= 90 /\ a < 110 -> 4
      [] a >= 70 /\ a < 90 -> 5
      [] a < 70 -> 6

ClauseBand(clause) ==
    CASE clause = "Too shallow - go deeper" -> 1
      [] clause = "Shallow squat - try for more depth" -> 2
      [] clause = "Perfect depth!" -> 3
      [] clause = "Good depth" -> 4
      [] clause = "Parallel depth achieved" -> 5
      [] clause = "Very deep - be careful" -> 6

LabelBand(label) ==
    CASE label = "No data" -> 0
      [] label = "Standing position" -> 1
      [] label = "Shallow squat" -> 2
      [] label = "Perfect depth!" -> 3
      [] label = "Good depth" -> 4
      [] label = "Parallel squat" -> 5
      [] label = "Very deep squat" -> 6

\* C17: for every knee angle other than 0 the knee clause of
\* generate_rep_feedback and the label of get_knee_feedback belong to the
\* same band, the band of the angle among >=170, (135,170), [110,135],
\* [90,110), [70,90), <70.
C17_SameBands ==
    (res # <<>> /\ arg[1] # 0) =>
        /\ ClauseBand(res[1]) = KneeBandIndex(arg[1])
        /\ LabelBand(res[2]) = KneeBandIndex(arg[1])

\* the lower end of the first band
C17_Witness ==
    /\ arg = <<170>>
    /\ res = <<"Too shallow - go deeper", "Standing position">>

\* C18: n calls of process_frame after the call that completed a rep, none
\* of them completing another, feedback_timer is 179 - n or 0, whichever is
\* larger: it is 0 once 180 calls have passed (and before any rep), and a
\* call that completes no rep leaves a timer of 0 at 0.
C18_CountdownBounded ==
    /\ [](cycles >= 1 =>
            feedback_timer = Max2(0, feedback_duration - 1 - calls_since_rep))
    /\ [](calls_since_rep >= feedback_duration => feedback_timer = 0)
    /\ [][(feedback_timer = 0 /\ rep_count' = rep_count) =>
              feedback_timer' = 0]_vars

\* the call at which the countdown of a rep reaches 0, a frame without pose
C18_Witness ==
    /\ cycles >= 1
    /\ calls_since_rep = feedback_duration - 1
    /\ feedback_timer = 0
    /\ frame_kind = "no_pose"

\* C19: the STANDING -> IN_SQUAT transitions fired so far exceed rep_count by
\* one while in_squat is true and equal it while in_squat is false; a rep is
\* counted only by a step that closes an open rep, one at a time, and the
\* step that opens a rep counts none.
C19_EdgeTriggered ==
    /\ [](opens - rep_count = IF in_squat THEN 1 ELSE 0)
    /\ [][rep_count' # rep_count =>
              (in_squat /\ ~in_squat' /\ rep_count' = rep_count + 1)]_vars
    /\ [][(~in_squat /\ in_squat') => rep_count' = rep_count]_vars

\* the second rep is open, the first is counted
C19_Witness ==
    /\ opens = 2
    /\ rep_count = 1
    /\ in_squat

TorsoClauses == {"Good torso position", "Torso too upright",
                 "Slight forward lean", "Too much forward lean"}

\* the feedback of a rep opens with this knee clause
HasKneeClause(feedback, clause) ==
    \E tc \in TorsoClauses : feedback = clause \o " | " \o tc

\* C20: while a rep is open, 0 < deepest_knee_angle < 140; no feedback has
\* the clause "Too shallow - go deeper"; and the feedback of a completed rep
\* has "Shallow squat - try for more depth" only when the least knee angle of
\* that rep lies strictly between 135 and 140.
C20_DeepestBelowThreshold ==
    /\ in_squat => (0 < deepest_knee_angle /\ deepest_knee_angle < 140)
    /\ ~HasKneeClause(last_rep_feedback, "Too shallow - go deeper")
    /\ (~below /\ HasKneeClause(last_rep_feedback,
                                "Shallow squat - try for more depth")) =>
           (135 < rep_min /\ rep_min < 140)

\* a rep whose least knee angle was 136, closed from 175
C20_Witness ==
    /\ in_squat = FALSE
    /\ rep_min = 136
    /\ last_rep_feedback = "Shallow squat - try for more depth | Good torso position"
    /\ current_rep_metrics[Len(current_rep_metrics)].knee_angle = 175

\* the points of the order that are set
SetPoints == {i \in 1..Len(point_order) : tracking_points[point_order[i]] # None}

\* C21: under any interleaving of clicks, 'r' resets and frames, point_index
\* stays in 0..4, exactly the first point_index points of the order shoulder,
\* hip, knee, ankle are set, setup_complete holds iff point_index = 4, a click
\* received while setup_complete holds changes nothing, a reset returns to
\* the initial state, and process_frame reports a non-zero angle or a depth
\* status other than "Unknown" only when setup_complete holds.
C21_Calibration ==
    /\ [](point_index \in 0..4)
    /\ [](SetPoints = 1..point_index)
    /\ [](setup_complete <=> point_index = 4)
    /\ [][(cv_event' = "click" /\ setup_complete) => UNCHANGED cv_prog_vars]_vars
    /\ [][cv_event' = "reset" =>
            /\ \A k \in DOMAIN tracking_points' : tracking_points'[k] = None
            /\ point_index' = 0
            /\ setup_complete' = FALSE]_vars
    /\ [](cv_event = "frame" =>
            /\ (cv_out[1] # 0 \/ cv_out[2] # 0) => setup_complete
            /\ cv_out[3] # "Unknown" <=> setup_complete)

\* the four points were clicked, and the frame processed afterwards reports
\* the angles and the depth status of the clicked points
C21_Witness ==
    /\ cv_event = "frame"
    /\ setup_complete
    /\ point_index = 4
    /\ tracking_points["hip"] = <<100, 200>>
    /\ tracking_points["knee"] = <<200, 100>>
    /\ cv_out = <<45, 45, "Below Parallel">>

====
